---- MODULE Spec2Model ----
(***************************************************************************)
(* Model of the rotating JSONL writer                                      *)
(* (src/src/ingestion/writers/rotating_jsonl_writer.py) and of the         *)
(* normalization pass (src/src/pipelines/normalize_l2.py).                 *)
(***************************************************************************)
EXTENDS Integers, Sequences, FiniteSets, TLC

(***************************************************************************)
(* Bounds of the model.                                                    *)
(***************************************************************************)
MaxBucket == 2      \* bucket ids are 1..MaxBucket
MaxWrites == 3      \* write() calls in one behaviour; the n-th call carries line n
MaxTime == 1        \* the wall clock runs from 0 to MaxTime ticks
MaxFaults == 1      \* I/O calls the environment makes fail in one behaviour
MaxLines == 2       \* lines of a raw file
MaxGapLines == 4    \* lines of a raw file where only its update ids vary
MaxBookLines == 3   \* lines of a raw file where only its levels vary
MaxId == 10         \* update ids of a lone continuity_ok call are 1..MaxId

(***************************************************************************)
(* Program constants.  The source sets BATCH_SIZE = 2000 lines and         *)
(* FLUSH_INTERVAL_SEC = 0.5 s; the model keeps both comparisons of         *)
(* write() and scales the values (2 lines, 1 clock tick of 0.5 s) so that  *)
(* both thresholds are crossed, and not crossed, within the bounds.        *)
(***************************************************************************)
BATCH_SIZE == 2
FLUSH_INTERVAL_SEC == 1

\* Optional[int] / Optional[Path]: None is 0, buckets and their paths are 1..
None == 0
Buckets == 1..MaxBucket

VARIABLES
    writer,     \* the RotatingJSONLWriter object (with its file object fp)
    disk,       \* out_dir: [tmp |-> name -> lines, final |-> name -> lines]
    handles,    \* temp files the operating system holds open for the process
    now,        \* time.time()
    nwrites,    \* number of write() calls made so far
    nfaults,    \* number of I/O calls the environment has made fail so far
    op,         \* the last call made: "new", "write", "close"
    ret,        \* how it ended: "ok" (returned) or "raised"
    hist,       \* history: per bucket, the lines write() appended, in order
    episode,    \* history: the lines appended since the last temp file open
    finEp,      \* history: per final file, the episode its last rename closed
    \* writer_loop
    queue,      \* the asyncio.Queue: WriteItems and the None sentinel, in arrival order
    loop,       \* the task: "get" (awaiting queue.get()), "done" (returned), "failed" (raised)
    arrived,    \* history: everything ever put on the queue, in arrival order
    written,    \* history: the items the task passed to writer.write(), in order
    closes,     \* history: the close() calls the task made
    \* process_raw_dir
    rawdir,     \* <symbol>/raw: name -> [lines, eof], the content read so far
    norm,       \* <symbol>/normalized: name -> records written
    px,         \* <symbol>/prices: name -> records written
    audits,     \* <symbol>/audit: name -> [complete, stats]
    pc,         \* "for" (at the head of the file loop), "lines" (in the line
                \* loop), "finished" (returned), "failed" (raised)
    todo,       \* the raw files the file loop has still to visit, the current one first
    pos,        \* lines of the current raw file read so far
    audit,      \* the Audit of the current pass
    book,       \* the TopBook of the current pass
    prev_u,     \* the continuity baseline of the current pass
    err,        \* the exception process_raw_dir raised: "none", "OSError", "TypeError"
    nfail,      \* I/O calls of process_raw_dir the environment made fail
    \* continuity_ok
    cc          \* a call of continuity_ok on its own: its arguments and, once
                \* it has returned, its result ("none" before)

wvars == <<writer, disk, handles, now, nwrites, nfaults, op, ret, hist, episode, finEp>>
lvars == <<queue, loop, arrived, written, closes>>
nvars == <<rawdir, norm, px, audits, pc, todo, pos, audit, book, prev_u, err, nfail>>
cvars == <<cc>>
vars == <<wvars, lvars, nvars, cvars>>

(***************************************************************************)
(* Files.  filename_fn is taken to be injective: the final file of bucket  *)
(* b is named b, its temp file b.tmp.  A directory maps the names that     *)
(* exist to their content, a sequence of lines.                            *)
(***************************************************************************)
Remove(dir, name) == [x \in (DOMAIN dir) \ {name} |-> dir[x]]
Put(dir, name, data) == [x \in (DOMAIN dir) \cup {name} |-> IF x = name THEN data ELSE dir[x]]
EmptyDir == [x \in {} |-> <<>>]

(***************************************************************************)
(* RotatingJSONLWriter.__init__ at time t.  fp is the Python file object:  *)
(* "none" (self.fp is None), "open" or "closed"; fp_buf is the content of  *)
(* its user-space buffer (buffering=1 MiB): written but not yet flushed.   *)
(***************************************************************************)
NewWriter(t) ==
    [current_bucket |-> None, fp |-> "none", fp_buf |-> <<>>,
     tmp_path |-> None, final_path |-> None,
     buffer |-> <<>>, last_flush |-> t]

(***************************************************************************)
(* A call in progress: the writer, the directory, the open handles, the    *)
(* number of I/O calls made, the I/O call the environment makes fail       *)
(* (0: none) and whether an exception is propagating.  Every step below    *)
(* passes a state with exc set through unchanged: the exception unwinds    *)
(* write() and close(), which catch nothing.                               *)
(***************************************************************************)
Call(w, d, h, k) == [w |-> w, d |-> d, h |-> h, io |-> 0, fault |-> k, exc |-> FALSE]
Raise(s) == [s EXCEPT !.exc = TRUE]
Io(s) == [s EXCEPT !.io = @ + 1]
Fails(s) == s.io + 1 = s.fault

\* fp.write(data): into the file object's buffer; ValueError on a closed file.
fp_write(s, data) ==
    IF s.exc THEN s
    ELSE IF s.w.fp # "open" THEN Raise(s)
    ELSE IF Fails(s) THEN Raise(Io(s))
    ELSE [Io(s) EXCEPT !.w.fp_buf = @ \o data]

\* fp.flush(): the buffered lines reach the temp file; on a failure they stay
\* in the file object's buffer; ValueError on a closed file.
fp_flush(s) ==
    IF s.exc THEN s
    ELSE IF s.w.fp # "open" THEN Raise(s)
    ELSE IF Fails(s) THEN Raise(Io(s))
    ELSE [Io(s) EXCEPT !.d.tmp = Put(@, s.w.tmp_path, @[s.w.tmp_path] \o s.w.fp_buf),
                       !.w.fp_buf = <<>>]

\* fp.close(): the handle is released and the object is closed even when the
\* close itself reports an error (its buffer is empty: flush() came first).
fp_close(s) ==
    IF s.exc THEN s
    ELSE LET c == [Io(s) EXCEPT !.w.fp = "closed", !.h = @ \ {s.w.tmp_path}]
         IN IF Fails(s) THEN Raise(c) ELSE c

\* tmp_path.replace(final_path): atomic rename over any existing final file.
replace(s) ==
    IF s.exc THEN s
    ELSE IF Fails(s) \/ s.w.tmp_path \notin DOMAIN s.d.tmp THEN Raise(Io(s))
    ELSE [Io(s) EXCEPT !.d.final = Put(@, s.w.final_path, s.d.tmp[s.w.tmp_path]),
                       !.d.tmp = Remove(@, s.w.tmp_path)]

\* out_dir.mkdir(parents=True, exist_ok=True)
mkdir(s) ==
    IF s.exc THEN s
    ELSE IF Fails(s) THEN Raise(Io(s))
    ELSE Io(s)

\* self.fp = tmp_path.open("ab"): creates the temp file when it is absent and
\* appends to its content when it exists.
open_ab(s) ==
    IF s.exc THEN s
    ELSE IF Fails(s) THEN Raise(Io(s))
    ELSE [Io(s) EXCEPT !.d.tmp = IF s.w.tmp_path \in DOMAIN @ THEN @ ELSE Put(@, s.w.tmp_path, <<>>),
                       !.w.fp = "open", !.w.fp_buf = <<>>,
                       !.h = @ \cup {s.w.tmp_path}]

\* An assignment to fields of self, skipped while an exception propagates.
Assign(s, w2) == IF s.exc THEN s ELSE [s EXCEPT !.w = w2]

_open_for_bucket(s, bucket) ==
    LET s1 == mkdir(s)
        s2 == Assign(s1, [s1.w EXCEPT !.final_path = bucket, !.tmp_path = bucket])
        s3 == open_ab(s2)
    IN Assign(s3, [s3.w EXCEPT !.current_bucket = bucket])

\* A finalize that returns early when nothing is buffered.
close_and_finalize_skip_empty(s) ==
    IF s.exc \/ s.w.fp = "none" \/ s.w.buffer = <<>> THEN s
    ELSE
    LET t == fp_write(s, s.w.buffer)
        s1 == Assign(t, [t.w EXCEPT !.buffer = <<>>])
        s2 == fp_flush(s1)
        s3 == fp_close(s2)
        s4 == replace(s3)
    IN Assign(s4, [s4.w EXCEPT !.fp = "none", !.current_bucket = None,
                               !.tmp_path = None, !.final_path = None])

_close_and_finalize(s) ==
    IF s.exc \/ s.w.fp = "none" THEN s
    ELSE
    LET s1 == IF s.w.buffer # <<>>
              THEN LET t == fp_write(s, s.w.buffer)
                   IN Assign(t, [t.w EXCEPT !.buffer = <<>>])
              ELSE s
        s2 == fp_flush(s1)
        s3 == fp_close(s2)
        s4 == replace(s3)
    IN Assign(s4, [s4.w EXCEPT !.fp = "none", !.current_bucket = None,
                               !.tmp_path = None, !.final_path = None])

\* A bucket transition that opens the new temp file without finalizing.
write_rotate_no_finalize(s, item) ==
    IF s.w.current_bucket = None \/ item.bucket # s.w.current_bucket
    THEN _open_for_bucket(s, item.bucket)
    ELSE s

\* write(), lines 80-82: the bucket transition.
write_rotate(s, item) ==
    IF s.w.current_bucket = None \/ item.bucket # s.w.current_bucket
    THEN _open_for_bucket(_close_and_finalize(s), item.bucket)
    ELSE s

\* A batching condition that compares the clock with the interval, not the
\* time elapsed since the last flush.
flush_due_absolute(buffer, t, last_flush) ==
    Len(buffer) >= BATCH_SIZE \/ t >= FLUSH_INTERVAL_SEC

\* write(), line 87: the batching condition.
flush_due(buffer, t, last_flush) ==
    Len(buffer) >= BATCH_SIZE \/ (t - last_flush) >= FLUSH_INTERVAL_SEC

\* write(), lines 84-91: append, then flush when a threshold is reached.
write_append(s, item, t) ==
    LET s1 == Assign(s, [s.w EXCEPT !.buffer = Append(@, item.line)])
    IN IF s1.exc \/ ~flush_due(s1.w.buffer, t, s1.w.last_flush) THEN s1
       ELSE LET s2 == fp_write(s1, s1.w.buffer)
                s3 == fp_flush(s2)
            IN Assign(s3, [s3.w EXCEPT !.buffer = <<>>, !.last_flush = t])

write(s, item, t) == write_append(write_rotate(s, item), item, t)

close(s) == _close_and_finalize(s)

\* The largest number of I/O calls in one write(): finalize (4), open (2), flush (2).
MaxIo == 8
Faults == 0..MaxIo

(***************************************************************************)
(* The writer under an arbitrary caller.  Init: a writer was constructed   *)
(* on an empty output directory.                                           *)
(***************************************************************************)
WInit ==
    /\ writer = NewWriter(0)
    /\ disk = [tmp |-> EmptyDir, final |-> EmptyDir]
    /\ handles = {}
    /\ now = 0
    /\ nwrites = 0
    /\ nfaults = 0
    /\ op = "new" /\ ret = "ok"
    /\ hist = [b \in Buckets |-> <<>>]
    /\ episode = <<>>
    /\ finEp = [b \in Buckets |-> <<>>]

\* writer_loop has constructed its writer and awaits the first item.
LInit ==
    /\ queue = <<>>
    /\ loop = "get"
    /\ arrived = <<>>
    /\ written = <<>>
    /\ closes = 0


\* The temp files a call renamed to their final names.
Renamed(d1, d2) == {c \in DOMAIN d1.tmp : c \notin DOMAIN d2.tmp}

\* The environment makes the k-th I/O call of a call fail (k = 0: none): it can
\* only fail a call that is made, and fails at most MaxFaults calls in all.
Inject(r) ==
    /\ r.fault = 0 \/ (r.io = r.fault /\ nfaults < MaxFaults)
    /\ nfaults' = IF r.fault = 0 THEN nfaults ELSE nfaults + 1

\* What the caller sees of a call: it returned, or it raised.
Outcome(name, r) ==
    /\ op' = name
    /\ ret' = IF r.exc THEN "raised" ELSE "ok"

\* The history variables over a call that finalized `done` and, with `line`
\* non-empty, appended it to bucket b (opening b's temp file first if `opened`).
History(done, b, line, opened) ==
    /\ finEp' = [c \in Buckets |-> IF c \in done THEN episode ELSE finEp[c]]
    /\ hist' = IF line = <<>> THEN hist ELSE [hist EXCEPT ![b] = @ \o line]
    /\ episode' = IF opened THEN line
                  ELSE IF done # {} THEN <<>>
                  ELSE episode \o line

\* The item of the next write() call: the n-th call carries line n.
Item(b) == [bucket |-> b, line |-> nwrites + 1]

\* Whether write_rotate, having ended in r1, opened a temp file for bucket b.
Opened(r1, b) == ~r1.exc /\ r1.w.fp = "open" /\ writer.current_bucket # b

\* writer.write(WriteItem(b, line n)) with the k-th I/O call failing (0: none).
Write(b, k) ==
    /\ nwrites < MaxWrites
    /\ LET s == Call(writer, disk, handles, k)
           r1 == write_rotate(s, Item(b))
           r == write(s, Item(b), now)
       IN /\ Inject(r)
          /\ writer' = r.w /\ disk' = r.d /\ handles' = r.h
          /\ Outcome("write", r)
          /\ History(Renamed(disk, r.d), b,
                     IF r1.exc THEN <<>> ELSE <<nwrites + 1>>, Opened(r1, b))
    /\ nwrites' = nwrites + 1
    /\ UNCHANGED <<now, lvars, nvars, cvars>>

\* writer.close() with the k-th I/O call failing (0: none).
Close(k) ==
    /\ LET r == close(Call(writer, disk, handles, k))
       IN /\ Inject(r)
          /\ writer' = r.w /\ disk' = r.d /\ handles' = r.h
          /\ Outcome("close", r)
          /\ History(Renamed(disk, r.d), None, <<>>, FALSE)
    /\ UNCHANGED <<now, nwrites, lvars, nvars, cvars>>

\* The wall clock advances between calls.
Tick ==
    /\ now < MaxTime
    /\ now' = now + 1
    /\ UNCHANGED <<writer, disk, handles, nwrites, nfaults, op, ret, hist, episode, finEp, lvars, nvars, cvars>>

WNext ==
    \/ \E b \in Buckets, k \in Faults : Write(b, k)
    \/ \E k \in Faults : Close(k)
    \/ Tick


(***************************************************************************)
(* The fault-free lifecycle: write() calls, then close().                  *)
(***************************************************************************)
PlainWrite(b) == op # "close" /\ Write(b, 0)

PlainNext ==
    \/ \E b \in Buckets : PlainWrite(b)
    \/ Close(0)
    \/ Tick


(***************************************************************************)
(* Crashes.  The process dies between two calls, or inside a call while    *)
(* it makes its k-th I/O call (the steps before it have taken effect, it   *)
(* and the steps after it have not); its memory, the file object's buffer  *)
(* and its handles are lost, the directory stays, and a new writer is      *)
(* constructed on the same out_dir.  No I/O call fails otherwise.          *)
(***************************************************************************)
Reborn ==
    /\ writer' = NewWriter(now)
    /\ handles' = {}
    /\ op' = "new" /\ ret' = "ok"
    /\ episode' = <<>>

Restart ==
    /\ Reborn
    /\ UNCHANGED <<disk, now, nwrites, nfaults, hist, finEp, lvars, nvars, cvars>>

CrashInWrite(b, k) ==
    /\ nwrites < MaxWrites
    /\ LET s == Call(writer, disk, handles, k)
           r1 == write_rotate(s, Item(b))
           r == write(s, Item(b), now)
       IN /\ r.io = k
          /\ disk' = r.d
          /\ finEp' = [c \in Buckets |-> IF c \in Renamed(disk, r.d) THEN episode ELSE finEp[c]]
          /\ hist' = IF r1.exc THEN hist ELSE [hist EXCEPT ![b] = Append(@, nwrites + 1)]
    /\ Reborn
    /\ nwrites' = nwrites + 1
    /\ UNCHANGED <<now, nfaults, lvars, nvars, cvars>>

CrashInClose(k) ==
    /\ LET r == close(Call(writer, disk, handles, k))
       IN /\ r.io = k
          /\ disk' = r.d
          /\ finEp' = [c \in Buckets |-> IF c \in Renamed(disk, r.d) THEN episode ELSE finEp[c]]
    /\ Reborn
    /\ UNCHANGED <<now, nwrites, nfaults, hist, lvars, nvars, cvars>>

CrashNext ==
    \/ \E b \in Buckets : Write(b, 0)
    \/ Close(0)
    \/ Tick
    \/ Restart
    \/ \E b \in Buckets, k \in 1..MaxIo : CrashInWrite(b, k)
    \/ \E k \in 1..MaxIo : CrashInClose(k)


(***************************************************************************)
(* writer_loop: the consumer task.  It suspends only in queue.get(); from  *)
(* one queue.get() to the next, or to its end, it runs as one step.        *)
(***************************************************************************)
NoneItem == [bucket |-> None, line |-> None]

\* Whether the call that ended in r made the I/O call k that was to fail.
Made(r, k) == k = 0 \/ r.io = k

\* A writer_loop whose close() follows the loop instead of sitting in a
\* finally clause: an exception leaves the task without it.
writer_loop_no_finally(w, d, h, item, cancelled, t, k, k2) ==
    LET s == Call(w, d, h, k)
    IN IF cancelled
       THEN [r |-> Raise(s), wrote |-> FALSE, closed |-> 0,
             hit |-> k = 0 /\ k2 = 0, loop |-> "failed"]
       ELSE IF item = NoneItem
       THEN LET c == close(s)
            IN [r |-> c, wrote |-> FALSE, closed |-> 1,
                hit |-> Made(c, k) /\ k2 = 0, loop |-> IF c.exc THEN "failed" ELSE "done"]
       ELSE LET r == write(s, item, t)
            IN [r |-> r, wrote |-> TRUE, closed |-> 0,
                hit |-> Made(r, k) /\ k2 = 0, loop |-> IF r.exc THEN "failed" ELSE "get"]

\* One resumption of writer_loop from `await queue.get()`, which returned
\* `item` or raised CancelledError (`cancelled`); t is the clock, k the I/O
\* call that fails in the call made in the loop body and k2 the one that
\* fails in the close() of the finally clause when write() raised (0: none).
\* The result: the state r after the last call made, whether write() was
\* called, the number of close() calls, whether the I/O calls to fail were
\* made, and where the task is.
writer_loop(w, d, h, item, cancelled, t, k, k2) ==
    LET s == Call(w, d, h, k)
    IN IF cancelled \/ item = NoneItem
       THEN \* break, or the exception of the await: the finally clause
            LET c == close(s)
            IN [r |-> c, wrote |-> FALSE, closed |-> 1,
                hit |-> Made(c, k) /\ k2 = 0,
                loop |-> IF c.exc \/ cancelled THEN "failed" ELSE "done"]
       ELSE LET r == write(s, item, t)
            IN IF ~r.exc
               THEN [r |-> r, wrote |-> TRUE, closed |-> 0,
                     hit |-> Made(r, k) /\ k2 = 0, loop |-> "get"]
               ELSE \* write() raised: the finally clause, then the exception goes on
                    LET c == close(Call(r.w, r.d, r.h, k2))
                    IN [r |-> c, wrote |-> TRUE, closed |-> 1,
                        hit |-> Made(r, k) /\ Made(c, k2), loop |-> "failed"]

\* A producer puts an item of bucket b: the n-th item carries line n.
Produce(b) ==
    /\ Len(SelectSeq(arrived, LAMBDA x : x # NoneItem)) < MaxWrites
    /\ LET item == [bucket |-> b, line |-> Len(arrived) + 1]
       IN queue' = Append(queue, item) /\ arrived' = Append(arrived, item)
    /\ UNCHANGED <<wvars, loop, written, closes, nvars, cvars>>

\* A producer puts the sentinel (once).
ProduceSentinel ==
    /\ \A i \in 1..Len(arrived) : arrived[i] # NoneItem
    /\ queue' = Append(queue, NoneItem) /\ arrived' = Append(arrived, NoneItem)
    /\ UNCHANGED <<wvars, loop, written, closes, nvars, cvars>>

\* The effect of a resumption that ended as o, with the faults k and k2.
Resumed(o, k, k2) ==
    /\ o.hit
    /\ (IF k = 0 THEN 0 ELSE 1) + (IF k2 = 0 THEN 0 ELSE 1) <= MaxFaults - nfaults
    /\ nfaults' = nfaults + (IF k = 0 THEN 0 ELSE 1) + (IF k2 = 0 THEN 0 ELSE 1)
    /\ writer' = o.r.w /\ disk' = o.r.d /\ handles' = o.r.h
    /\ op' = IF o.closed = 1 THEN "close" ELSE "write"
    /\ ret' = IF o.r.exc THEN "raised" ELSE "ok"
    /\ nwrites' = nwrites + (IF o.wrote THEN 1 ELSE 0)
    /\ closes' = closes + o.closed
    /\ loop' = o.loop
    /\ UNCHANGED <<now, hist, episode, finEp, arrived, nvars, cvars>>

\* queue.get() returns the head of the queue and the task runs to its next
\* queue.get() or to its end.
Consume(k, k2) ==
    /\ loop = "get" /\ queue # <<>>
    /\ LET item == Head(queue)
       IN /\ Resumed(writer_loop(writer, disk, handles, item, FALSE, now, k, k2), k, k2)
          /\ written' = IF item = NoneItem THEN written ELSE Append(written, item)
    /\ queue' = Tail(queue)

\* The task is cancelled while it waits in queue.get().
Cancel(k) ==
    /\ loop = "get"
    /\ Resumed(writer_loop(writer, disk, handles, NoneItem, TRUE, now, k, 0), k, 0)
    /\ UNCHANGED <<queue, written>>

LoopNext ==
    \/ \E b \in Buckets : Produce(b)
    \/ ProduceSentinel
    \/ \E k, k2 \in Faults : Consume(k, k2)
    \/ \E k \in Faults : Cancel(k)
    \/ Tick


(***************************************************************************)
(* normalize_l2.py.  Raw lines.  A raw line is what orjson.loads makes of  *)
(* it: json is "invalid" (loads raises), "scalar" (a JSON number, boolean  *)
(* or null), "array" (a list that does not hold the nine field names) or   *)
(* "object" (a dict with the keys `keys`).  A decimal string is the        *)
(* integer it denotes, Malformed a string Decimal() rejects; U and u are   *)
(* integers, IllTyped a JSON string in their place.  The fields that       *)
(* normalize_delta copies or rescales without reading them (exchange,      *)
(* symbol, conn_id, recv_ts_ns, event_ts_ms) carry no value here, and the  *)
(* derived mid and micro of a price record are left out.                   *)
(***************************************************************************)
PRICE_SCALE == 100000000
QTY_SCALE == 100000000
Malformed == -1
IllTyped == -1

required == {"exchange", "symbol", "conn_id", "recv_ts_ns", "event_ts_ms", "U", "u", "b", "a"}

UVals == {1, 2}

\* The level updates of the well-formed lines: both sides set, the bid
\* removed, the ask moved.
Levels ==
    { [b |-> << <<1, 1>> >>, a |-> << <<2, 1>> >>],
      [b |-> << <<1, 0>> >>, a |-> <<>>],
      [b |-> <<>>, a |-> << <<2, 0>>, <<1, 2>> >>] }

RawLine(json, keys, U, u, b, a) ==
    [json |-> json, keys |-> keys, U |-> U, u |-> u, b |-> b, a |-> a]

OkLines == {RawLine("object", required, U, u, l.b, l.a) : U \in UVals, u \in UVals, l \in Levels}

BadLines ==
    { RawLine("invalid", {}, 0, 0, <<>>, <<>>),
      RawLine("scalar", {}, 0, 0, <<>>, <<>>),
      RawLine("array", {}, 0, 0, <<>>, <<>>),
      RawLine("object", required \ {"u"}, 1, 0, <<>>, <<>>),
      RawLine("object", required, 1, 1, << <<Malformed, 1>> >>, <<>>),
      RawLine("object", required, IllTyped, IllTyped, <<>>, <<>>) }

Lines == OkLines \cup BadLines

\* to_fp(x, scale): Decimal(x) raises on a malformed string.
to_fp_raises(x) == x = Malformed
to_fp(x, scale) == x * scale

normalize_level(level) == <<to_fp(level[1], PRICE_SCALE), to_fp(level[2], QTY_SCALE)>>

\* is_depth_delta(raw): `k not in raw` raises TypeError on a scalar, is true
\* for each k on a list of other things and tests the keys of a dict.
is_depth_delta_raises(raw) == raw.json = "scalar"
is_depth_delta(raw) == raw.json = "object" /\ \A k \in required : k \in raw.keys

\* normalize_delta(raw): raises when one of its levels does.
normalize_delta_raises(raw) ==
    \/ \E i \in DOMAIN raw.b : to_fp_raises(raw.b[i][1]) \/ to_fp_raises(raw.b[i][2])
    \/ \E i \in DOMAIN raw.a : to_fp_raises(raw.a[i][1]) \/ to_fp_raises(raw.a[i][2])
normalize_delta(raw) ==
    [U |-> raw.U, u |-> raw.u,
     b |-> [i \in DOMAIN raw.b |-> normalize_level(raw.b[i])],
     a |-> [i \in DOMAIN raw.a |-> normalize_level(raw.a[i])]]

\* TopBook
TopBook == [bids |-> EmptyDir, asks |-> EmptyDir]

RECURSIVE apply_side_keep_zero(_, _)
apply_side_keep_zero(side, levels) ==
    IF levels = <<>> THEN side
    ELSE apply_side_keep_zero(Put(side, levels[1][1], levels[1][2]), Tail(levels))

RECURSIVE apply_side(_, _)
apply_side(side, levels) ==
    IF levels = <<>> THEN side
    ELSE LET p == levels[1][1]
             q == levels[1][2]
         IN apply_side(IF q = 0 THEN Remove(side, p) ELSE Put(side, p, q), Tail(levels))

apply(bk, d) == [bids |-> apply_side(bk.bids, d.b), asks |-> apply_side(bk.asks, d.a)]

max(S) == CHOOSE x \in S : \A y \in S : y <= x
min(S) == CHOOSE x \in S : \A y \in S : x <= y

\* TopBook.best(): None when a side is empty.
best_is_None(bk) == DOMAIN bk.bids = {} \/ DOMAIN bk.asks = {}
best_lowest_bid(bk) ==
    LET best_bid == min(DOMAIN bk.bids)
        best_ask == min(DOMAIN bk.asks)
    IN <<best_bid, bk.bids[best_bid], best_ask, bk.asks[best_ask]>>
best(bk) ==
    LET best_bid == max(DOMAIN bk.bids)
        best_ask == min(DOMAIN bk.asks)
    IN <<best_bid, bk.bids[best_bid], best_ask, bk.asks[best_ask]>>

\* Audit(); first_gap None is the record of line 0 (lines count from 1).
NoGap == [prev_u |-> None, U |-> 0, u |-> 0, line |-> 0]
Audit ==
    [raw_lines |-> 0, kept_lines |-> 0, bad_json |-> 0, skipped_schema |-> 0,
     normalize_errors |-> 0, continuity_ok |-> TRUE, gaps |-> 0, first_gap |-> NoGap]

\* continuity_ok(prev_u, U, u): the comparison raises TypeError when it meets
\* a string; prev_u is a string after a kept line whose u was one.
continuity_ok_raises(p, U, u) == p # None /\ (p = IllTyped \/ U = IllTyped \/ u = IllTyped)
continuity_ok_one_sided(p, U, u) == IF p = None THEN TRUE ELSE U <= p + 1
continuity_ok(p, U, u) == IF p = None THEN TRUE ELSE U <= p + 1 /\ p + 1 <= u

(***************************************************************************)
(* One iteration of the line loop, from a state of the pass: its Audit,    *)
(* TopBook and prev_u, the records written to fnorm and fpx, the I/O calls *)
(* made, the one that fails (0: none) and the exception that is            *)
(* propagating ("none" if none).                                           *)
(***************************************************************************)
Pass(a, bk, p, k) ==
    [audit |-> a, book |-> bk, prev_u |-> p, fnorm |-> <<>>, fpx |-> <<>>,
     io |-> 0, fault |-> k, exc |-> "none"]
Throw(s, e) == [s EXCEPT !.exc = e]

\* `for line in fin` hands out the next line.
read_line(s) == IF Fails(s) THEN Throw(Io(s), "OSError") ELSE Io(s)

\* The three `continue` branches that drop a line.
on_bad_json(s) == [s EXCEPT !.audit.bad_json = @ + 1]
on_schema_mismatch_uncounted(s) == s
on_schema_mismatch(s) == [s EXCEPT !.audit.skipped_schema = @ + 1]
on_normalize_error(s) == [s EXCEPT !.audit.normalize_errors = @ + 1]

\* The continuity step of a kept line.
check_continuity_last_gap(s, d) ==
    IF continuity_ok_raises(s.prev_u, d.U, d.u) THEN Throw(s, "TypeError")
    ELSE IF ~continuity_ok(s.prev_u, d.U, d.u)
    THEN [s EXCEPT !.audit.continuity_ok = FALSE,
                   !.audit.gaps = @ + 1,
                   !.audit.first_gap =
                       [prev_u |-> s.prev_u, U |-> d.U, u |-> d.u,
                        line |-> s.audit.raw_lines],
                   !.prev_u = None]
    ELSE [s EXCEPT !.prev_u = d.u]

check_continuity_resync(s, d) ==
    IF continuity_ok_raises(s.prev_u, d.U, d.u) THEN Throw(s, "TypeError")
    ELSE IF ~continuity_ok(s.prev_u, d.U, d.u)
    THEN [s EXCEPT !.audit.continuity_ok = FALSE,
                   !.audit.gaps = @ + 1,
                   !.audit.first_gap =
                       IF @ = NoGap
                       THEN [prev_u |-> s.prev_u, U |-> d.U, u |-> d.u,
                             line |-> s.audit.raw_lines]
                       ELSE @,
                   !.prev_u = d.u]
    ELSE [s EXCEPT !.prev_u = d.u]

check_continuity(s, d) ==
    IF continuity_ok_raises(s.prev_u, d.U, d.u) THEN Throw(s, "TypeError")
    ELSE IF ~continuity_ok(s.prev_u, d.U, d.u)
    THEN [s EXCEPT !.audit.continuity_ok = FALSE,
                   !.audit.gaps = @ + 1,
                   !.audit.first_gap =
                       IF @ = NoGap
                       THEN [prev_u |-> s.prev_u, U |-> d.U, u |-> d.u,
                             line |-> s.audit.raw_lines]
                       ELSE @,
                   !.prev_u = None]
    ELSE [s EXCEPT !.prev_u = d.u]

\* fnorm.write(orjson.dumps(d) + b"\n")
write_norm(s, d) ==
    IF s.exc # "none" THEN s
    ELSE IF Fails(s) THEN Throw(Io(s), "OSError")
    ELSE [Io(s) EXCEPT !.fnorm = Append(@, d)]

\* book.apply(d) and, unless best is None, fpx.write(orjson.dumps(px) + b"\n")
write_px(s, d) ==
    IF s.exc # "none" THEN s
    ELSE LET t == [s EXCEPT !.book = apply(@, d)]
             bb == best(t.book)
         IN IF best_is_None(t.book) THEN t
            ELSE IF Fails(t) THEN Throw(Io(t), "OSError")
            ELSE [Io(t) EXCEPT !.fpx = Append(@, [best_bid |-> bb[1], bid_sz |-> bb[2],
                                                   best_ask |-> bb[3], ask_sz |-> bb[4],
                                                   price_scale |-> PRICE_SCALE,
                                                   qty_scale |-> QTY_SCALE])]

\* A line that passed is_depth_delta and normalize_delta.
keep_line_norm_if_priced(s, d) ==
    LET t == [s EXCEPT !.audit.kept_lines = @ + 1]
        c == check_continuity(t, d)
    IN IF c.exc # "none" THEN c
       ELSE IF best_is_None(apply(c.book, d)) THEN write_px(c, d)
       ELSE write_px(write_norm(c, d), d)

keep_line(s, d) ==
    LET t == [s EXCEPT !.audit.kept_lines = @ + 1]
    IN write_px(write_norm(check_continuity(t, d), d), d)

process_line(s, line) ==
    LET r == read_line(s)
        t == [r EXCEPT !.audit.raw_lines = @ + 1]
    IN IF r.exc # "none" THEN r
       ELSE IF line.json = "invalid" THEN on_bad_json(t)
       ELSE IF is_depth_delta_raises(line) THEN Throw(t, "TypeError")
       ELSE IF ~is_depth_delta(line) THEN on_schema_mismatch(t)
       ELSE IF normalize_delta_raises(line) THEN on_normalize_error(t)
       ELSE keep_line(t, normalize_delta(line))

(***************************************************************************)
(* process_raw_dir on one <symbol> directory.  The raw directory holds the *)
(* finalized files of RawNames; a file's lines are fixed the first time    *)
(* they are read and every later pass reads the same lines.  The output    *)
(* directories map a stem to what the file of that stem holds; an audit    *)
(* file holds its document once json.dump and the close have succeeded     *)
(* (complete) and is empty or cut short otherwise.                         *)
(***************************************************************************)
RawNames == {1}

RECURSIVE sorted(_)
sorted(S) == IF S = {} THEN <<>> ELSE <<min(S)>> \o sorted(S \ {min(S)})

list_raw_files(dir) == sorted(DOMAIN dir)

NInitOn(names) ==
    /\ rawdir = [f \in names |-> [lines |-> <<>>, eof |-> FALSE]]
    /\ norm = EmptyDir /\ px = EmptyDir /\ audits = EmptyDir
    /\ pc = "idle"
    /\ todo = <<>>
    /\ pos = 0
    /\ audit = Audit /\ book = TopBook /\ prev_u = None
    /\ err = "none"
    /\ nfail = 0

NInit == NInitOn(RawNames)

\* No call of continuity_ok on its own is in progress.
NoCall == [prev_u |-> None, U |-> 1, u |-> 1, out |-> "none"]
CInit == cc = NoCall

\* The completeness check of the file loop.
Complete(f) == f \in DOMAIN norm /\ f \in DOMAIN px /\ f \in DOMAIN audits

\* The environment fails the k-th of the n I/O calls a step makes (0: none),
\* at most MaxFaults calls in all.
Failing(k, n) ==
    /\ k = 0 \/ (k <= n /\ nfail < MaxFaults)
    /\ nfail' = IF k = 0 THEN nfail ELSE nfail + 1

\* The locals of the pass over the current file.
Locals(a, bk, p, n) == audit' = a /\ book' = bk /\ prev_u' = p /\ pos' = n
NoLocals == Locals(Audit, TopBook, None, 0)

\* process_raw_dir raises e out of the file loop: its frame is gone.
Abort(e) == pc' = "failed" /\ err' = e /\ NoLocals

\* process_raw_dir(raw_dir) is called: the three mkdir calls, then the
\* listing, which yields `listing`.
InvokeOn(k, listing) ==
    /\ pc \in {"idle", "finished", "failed"}
    /\ Failing(k, 3)
    /\ IF k # 0 THEN Abort("OSError") /\ todo' = <<>>
       ELSE pc' = "for" /\ err' = "none" /\ NoLocals /\ todo' = listing
    /\ UNCHANGED <<rawdir, norm, px, audits>>
    /\ UNCHANGED <<wvars, lvars, cvars>>

Invoke(k) == InvokeOn(k, list_raw_files(rawdir))

\* The file loop is exhausted: process_raw_dir returns.
Return ==
    /\ pc = "for" /\ todo = <<>>
    /\ pc' = "finished" /\ NoLocals
    /\ UNCHANGED <<rawdir, norm, px, audits, todo, err, nfail>>
    /\ UNCHANGED <<wvars, lvars, cvars>>

\* The next raw file has its three outputs: continue.
Skip ==
    /\ pc = "for" /\ todo # <<>> /\ Complete(Head(todo))
    /\ todo' = Tail(todo)
    /\ UNCHANGED <<rawdir, norm, px, audits, pc, pos, audit, book, prev_u, err, nfail>>
    /\ UNCHANGED <<wvars, lvars, cvars>>

\* path.open("wb"): the file is created, or truncated if it exists.
open_wb_keep(dir, f) == IF f \in DOMAIN dir THEN dir ELSE Put(dir, f, <<>>)
open_wb(dir, f) == Put(dir, f, <<>>)

\* The next raw file lacks an output: fresh Audit, TopBook and prev_u, and the
\* with statement opens fin, fnorm ("wb") and fpx ("wb"), in this order; rd is
\* the raw directory as the pass knows it from then on.
StartFileOn(k, rd) ==
    /\ pc = "for" /\ todo # <<>> /\ ~Complete(Head(todo))
    /\ Failing(k, 3)
    /\ LET f == Head(todo)
       IN /\ norm' = IF k \in {0, 3} THEN open_wb(norm, f) ELSE norm
          /\ px' = IF k = 0 THEN open_wb(px, f) ELSE px
    /\ IF k # 0 THEN Abort("OSError")
       ELSE pc' = "lines" /\ err' = err /\ Locals(Audit, TopBook, None, 0)
    /\ rawdir' = IF k # 1 THEN rd ELSE rawdir
    /\ UNCHANGED <<audits, todo>>
    /\ UNCHANGED <<wvars, lvars, cvars>>

StartFile(k) == StartFileOn(k, rawdir)

\* One iteration of the line loop on the next line of the file, which is
\* `line`, in a file of at most n lines.  An exception leaves the with
\* statement, which closes the files.
ReadLineOf(line, k, n) ==
    /\ pc = "lines"
    /\ LET f == Head(todo)
           known == rawdir[f].lines
           r == process_line(Pass(audit, book, prev_u, k), line)
       IN /\ IF pos < Len(known) THEN line = known[pos + 1] /\ rawdir' = rawdir
             ELSE /\ ~rawdir[f].eof /\ Len(known) < n
                  /\ rawdir' = IF k = 1 THEN rawdir
                               ELSE [rawdir EXCEPT ![f].lines = Append(@, line)]
          /\ Failing(k, r.io)
          /\ norm' = [norm EXCEPT ![f] = @ \o r.fnorm]
          /\ px' = [px EXCEPT ![f] = @ \o r.fpx]
          /\ IF r.exc # "none" THEN Abort(r.exc)
             ELSE pc' = pc /\ err' = err /\ Locals(r.audit, r.book, r.prev_u, pos + 1)
    /\ UNCHANGED <<audits, todo>>
    /\ UNCHANGED <<wvars, lvars, cvars>>

ReadLine(line, k) == ReadLineOf(line, k, MaxLines)

\* The raw file is exhausted: the with statement closes fpx and fnorm, then the
\* audit file is opened ("w") and the document is dumped into it and flushed
\* by the close; a failure of the dump or of the close leaves the file that
\* open() created.
EndOfFile(k) ==
    /\ pc = "lines"
    /\ LET f == Head(todo)
       IN /\ pos = Len(rawdir[f].lines)
          /\ rawdir' = [rawdir EXCEPT ![f].eof = TRUE]
          /\ Failing(k, 4)
          /\ audits' = IF k = 0 THEN Put(audits, f, [complete |-> TRUE, stats |-> audit])
                       ELSE IF k = 4 THEN Put(audits, f, [complete |-> FALSE, stats |-> Audit])
                       ELSE audits
    /\ IF k # 0 THEN Abort("OSError") /\ todo' = todo
       ELSE pc' = "for" /\ err' = err /\ todo' = Tail(todo)
            /\ UNCHANGED <<pos, audit, book, prev_u>>
    /\ UNCHANGED <<norm, px>>
    /\ UNCHANGED <<wvars, lvars, cvars>>

NFaults == 0..4

NNext ==
    \/ \E k \in NFaults : Invoke(k)
    \/ Return
    \/ Skip
    \/ \E k \in NFaults : StartFile(k)
    \/ \E line \in Lines, k \in NFaults : ReadLine(line, k)
    \/ \E k \in NFaults : EndOfFile(k)

(***************************************************************************)
(* A batch: process_raw_dir on a raw directory of two files, the lines of  *)
(* which are a well-formed delta or unparseable.                           *)
(***************************************************************************)
BatchNames == {1, 2}
BatchLines ==
    { RawLine("object", required, 1, 1, << <<1, 1>> >>, << <<2, 1>> >>),
      RawLine("invalid", {}, 0, 0, <<>>, <<>>) }

BatchInit == WInit /\ LInit /\ NInitOn(BatchNames) /\ CInit

BatchNext ==
    \/ \E k \in NFaults : Invoke(k)
    \/ Return
    \/ Skip
    \/ \E k \in NFaults : StartFile(k)
    \/ \E line \in BatchLines, k \in NFaults : ReadLine(line, k)
    \/ \E k \in NFaults : EndOfFile(k)

(***************************************************************************)
(* A longer raw file with no I/O failure: its lines are the well-formed    *)
(* deltas of one level update, with every U and u, or unparseable.         *)
(***************************************************************************)
GapLines ==
    { RawLine("object", required, U, u, << <<1, 1>> >>, << <<2, 1>> >>) : U \in UVals, u \in UVals }
    \cup { RawLine("invalid", {}, 0, 0, <<>>, <<>>) }

GapNext ==
    \/ Invoke(0)
    \/ Return
    \/ Skip
    \/ StartFile(0)
    \/ \E line \in GapLines : ReadLineOf(line, 0, MaxGapLines)
    \/ EndOfFile(0)

(***************************************************************************)
(* A raw file of well-formed deltas with no I/O failure: each line updates *)
(* one side, setting, resizing or removing a price, or doing two of these  *)
(* to one price in a row.                                                  *)
(***************************************************************************)
BookLevels ==
    { << <<1, 1>> >>, << <<1, 2>> >>, << <<1, 0>> >>, << <<2, 1>> >>,
      << <<1, 1>>, <<1, 0>> >>, << <<2, 0>>, <<2, 2>> >> }
BookLines ==
    { RawLine("object", required, 1, 1, l, <<>>) : l \in BookLevels }
    \cup { RawLine("object", required, 1, 1, <<>>, l) : l \in BookLevels }

BookNext ==
    \/ Invoke(0)
    \/ Return
    \/ Skip
    \/ StartFile(0)
    \/ \E line \in BookLines : ReadLineOf(line, 0, MaxBookLines)
    \/ EndOfFile(0)

(***************************************************************************)
(* The writer and the pass on one raw directory, with no failure: out_dir  *)
(* of the writer is raw_dir of the pass, and their steps interleave.  The  *)
(* directory lists the final file of bucket b under the name b and its     *)
(* temp file, "<name>.tmp", under TmpName(b); the pattern of               *)
(* list_raw_files, "deltas_utcmin_*.jsonl", matches the final names only.  *)
(* Line n of the writer is a well-formed delta with U = u = n.  Opening a  *)
(* raw file fixes what the pass reads: a later rename replaces the name,   *)
(* not the open file.                                                      *)
(***************************************************************************)
TmpName(b) == 0 - b
raw_dir_names(d) == DOMAIN d.final \cup {TmpName(b) : b \in DOMAIN d.tmp}
glob(names) == {n \in names : n > 0}

Payload(n) == RawLine("object", required, n, n, <<>>, <<>>)
Payloads(ns) == [i \in DOMAIN ns |-> Payload(ns[i])]

PipeInit == WInit /\ LInit /\ NInitOn({}) /\ CInit

PipeInvoke ==
    /\ pc # "for" /\ pc # "lines"
    /\ InvokeOn(0, sorted(glob(raw_dir_names(disk))))

PipeStart ==
    /\ pc = "for" /\ todo # <<>>
    /\ StartFileOn(0, Put(rawdir, Head(todo),
                          [lines |-> Payloads(disk.final[Head(todo)]), eof |-> TRUE]))

PipeNext ==
    \/ \E b \in Buckets : PlainWrite(b)
    \/ Close(0)
    \/ PipeInvoke
    \/ Return
    \/ Skip
    \/ PipeStart
    \/ \E n \in 1..MaxWrites : ReadLineOf(Payload(n), 0, 0)
    \/ EndOfFile(0)

(***************************************************************************)
(* continuity_ok on its own: a caller holds any prev_u (None or an id) and *)
(* any U and u, and calls it.                                              *)
(***************************************************************************)
Ids == 1..MaxId
ContInit ==
    /\ WInit /\ LInit /\ NInit
    /\ cc \in {[prev_u |-> p, U |-> U, u |-> u, out |-> "none"] :
                   p \in {None} \cup Ids, U \in Ids, u \in Ids}

CallContinuity ==
    /\ cc.out = "none"
    /\ cc' = [cc EXCEPT !.out = IF continuity_ok(cc.prev_u, cc.U, cc.u) THEN "true" ELSE "false"]
    /\ UNCHANGED <<wvars, lvars, nvars>>

ContNext == CallContinuity

(***************************************************************************)
(* Specifications: the writer under I/O faults (SpecW), its fault-free     *)
(* lifecycle (SpecPlain), the writer under crashes (SpecCrash), the        *)
(* consumer task (SpecLoop), the normalization pass over one raw file      *)
(* (SpecN), over a batch of two (SpecBatch) and over a longer file         *)
(* (SpecGap, SpecBook), the writer and the pass together (SpecPipe) and    *)
(* continuity_ok on its own (SpecCont).                                    *)
(***************************************************************************)
Init == WInit /\ LInit /\ NInit /\ CInit

SpecW == Init /\ [][WNext]_vars
SpecPlain == Init /\ [][PlainNext]_vars
SpecCrash == Init /\ [][CrashNext]_vars
SpecLoop == Init /\ [][LoopNext]_vars
SpecN == Init /\ [][NNext]_vars
SpecBatch == BatchInit /\ [][BatchNext]_vars
SpecGap == Init /\ [][GapNext]_vars
SpecBook == Init /\ [][BookNext]_vars
SpecPipe == PipeInit /\ [][PipeNext]_vars
SpecCont == ContInit /\ [][ContNext]_vars

(***************************************************************************)
(* Claims about the writer.                                                *)
(***************************************************************************)

\* C1: after write() calls on any sequence of buckets followed by close(),
\* starting from an empty directory, there is exactly one final file per bucket
\* written, it holds all the lines written to the bucket in arrival order, and
\* no temp file remains.
C1_WriterAtomicity ==
    op = "close" =>
        /\ DOMAIN disk.final = {b \in Buckets : hist[b] # <<>>}
        /\ \A b \in DOMAIN disk.final : disk.final[b] = hist[b]
        /\ DOMAIN disk.tmp = {}

\* C2: in every reachable state, crashes at any step and restarts included, a
\* file under a final name holds exactly the lines of one open-to-finalize
\* episode of its bucket (nothing of an unfinished episode).
C2_FinalNamesHoldOneEpisode ==
    \A b \in DOMAIN disk.final : disk.final[b] = finEp[b]

\* C3: at most one temp file is open and it is the writer's one bucket; no
\* other bucket has a temp file left; and a step that opens the temp file of a
\* new bucket has renamed the previous one to its final name with its flushed
\* lines, the file object's buffer and the remaining buffer, in that order.
C3_OneOpen ==
    /\ Cardinality(handles) <= 1
    /\ \A b \in handles : writer.current_bucket = b /\ DOMAIN disk.tmp = {b}

C3_Transition ==
    \A c \in handles : \A b \in handles' \ {c} :
        /\ c \notin DOMAIN disk'.tmp
        /\ c \in DOMAIN disk'.final
        /\ disk'.final[c] = disk.tmp[c] \o writer.fp_buf \o writer.buffer

C3_BucketTransitionOrder == []C3_OneOpen /\ [][C3_Transition]_vars

C3_Witness ==
    /\ handles = {2} /\ writer.current_bucket = 2
    /\ 1 \in DOMAIN disk.final /\ disk.final[1] # <<>>

\* C4: a write() to the open bucket that leaves fewer than BATCH_SIZE lines
\* buffered, less than FLUSH_INTERVAL_SEC after the last flush, writes nothing
\* to the temp file (the line stays in the buffer); the temp file and the file
\* object's buffer change only in close(), in a write() that changes bucket or
\* in a write() that reaches a threshold.
C4_FileState == <<disk, writer.fp_buf>>

C4_SameBucketWrite ==
    /\ nwrites' = nwrites + 1
    /\ writer.fp = "open"
    /\ writer.current_bucket \in Buckets
    /\ hist'[writer.current_bucket] # hist[writer.current_bucket]

C4_UnderThresholds ==
    /\ Len(writer.buffer) + 1 < BATCH_SIZE
    /\ now - writer.last_flush < FLUSH_INTERVAL_SEC

C4_Step ==
    /\ (C4_SameBucketWrite /\ C4_UnderThresholds) =>
           /\ C4_FileState' = C4_FileState
           /\ writer'.buffer = Append(writer.buffer, nwrites + 1)
    /\ C4_FileState' # C4_FileState =>
           \/ op' = "close"
           \/ nwrites' = nwrites + 1 /\ ~C4_SameBucketWrite
           \/ C4_SameBucketWrite /\ ~C4_UnderThresholds

C4_WriterBatching == [][C4_Step]_vars

C4_Witness ==
    /\ op = "write" /\ ret = "ok" /\ writer.fp = "open"
    /\ Len(hist[writer.current_bucket]) = 1
    /\ writer.buffer = hist[writer.current_bucket]
    /\ disk.tmp[writer.current_bucket] = <<>> /\ writer.fp_buf = <<>>

\* C5: a close() that returns from Open(bucket) leaves the writer Closed with
\* the bucket's temp file renamed to its final name, holding what was flushed
\* and what was buffered, whatever the buffer size and the flush timer, and
\* without an I/O failure it does return; a close() on a Closed writer returns
\* and changes neither the writer nor any file.
C5_Step ==
    \A k \in Faults : Close(k) =>
        /\ writer.fp = "none" =>
               ret' = "ok" /\ UNCHANGED <<writer, disk, handles>>
        /\ (writer.fp = "open" /\ k = 0) => ret' = "ok"
        /\ (writer.fp = "open" /\ ret' = "ok") =>
               /\ writer' = NewWriter(writer.last_flush)
               /\ handles' = {}
               /\ DOMAIN disk'.tmp = {}
               /\ disk'.final = Put(disk.final, writer.current_bucket,
                                    disk.tmp[writer.current_bucket]
                                       \o writer.fp_buf \o writer.buffer)

C5_CloseForcesFinalize == [][C5_Step]_vars

C5_Witness ==
    /\ op = "close" /\ ret = "ok" /\ writer.fp = "none"
    /\ \E b \in DOMAIN disk.final : Len(disk.final[b]) = 1 /\ now = 0

\* C7: after a call that raised, one more close() during which no I/O call
\* fails returns, and the bucket's final file then holds every line appended
\* to the bucket once and no temp file remains.
C7_Step ==
    (ret = "raised" /\ Close(0)) =>
        /\ ret' = "ok"
        /\ DOMAIN disk'.tmp = {}
        /\ \A b \in Buckets : hist[b] # <<>> =>
               b \in DOMAIN disk'.final /\ disk'.final[b] = hist[b]

C7_RetryFinalizeCompletes == [][C7_Step]_vars

\* C6: the task passes the queue's items to write() in arrival order, none
\* of them after the sentinel; when it has ended, by the sentinel or by an
\* exception, it has made its final close(), and it makes none before.
C6_ConsumerShutdown ==
    /\ Len(written) <= Len(arrived)
    /\ \A i \in 1..Len(written) : written[i] = arrived[i] /\ written[i] # NoneItem
    /\ loop = "get" => closes = 0
    /\ loop \in {"done", "failed"} => closes = 1

C6_Witness ==
    /\ loop = "failed" /\ closes = 1 /\ Len(written) = 2
    /\ queue # <<>>

(***************************************************************************)
(* Claims about the normalization pass.                                    *)
(***************************************************************************)

\* The four outcome counters of a line.
Outcomes == {"bad_json", "skipped_schema", "normalize_errors", "kept_lines"}

\* C8: in a pass over one raw file, after each fully processed line and in
\* the persisted audit document, raw_lines = bad_json + skipped_schema +
\* normalize_errors + kept_lines and raw_lines is the number of physical
\* lines read; every line that is fully processed adds one to raw_lines and
\* to exactly one of the four other counters, and leaves the other three.
C8_Sum(a) ==
    a.raw_lines = a.bad_json + a.skipped_schema + a.normalize_errors + a.kept_lines
C8_Inv ==
    /\ pc = "lines" => C8_Sum(audit) /\ audit.raw_lines = pos
    /\ \A f \in DOMAIN audits :
           audits[f].complete =>
               /\ C8_Sum(audits[f].stats)
               /\ audits[f].stats.raw_lines = Len(rawdir[f].lines)
\* A step that fully processes a line: the line loop goes on to the next line.
LineDone == pc = "lines" /\ pc' = "lines" /\ pos' = pos + 1
C8_Step ==
    LineDone =>
        /\ audit'.raw_lines = audit.raw_lines + 1
        /\ Cardinality({c \in Outcomes : audit'[c] = audit[c] + 1}) = 1
        /\ \A c \in Outcomes : audit'[c] \in {audit[c], audit[c] + 1}
C8_AuditCounterInvariant == []C8_Inv /\ [][C8_Step]_vars

\* C8 witness: a persisted audit of a file of two lines, one of them kept
\* and the other dropped for its schema.
C8_Witness ==
    \E f \in DOMAIN audits :
        /\ audits[f].complete
        /\ audits[f].stats.raw_lines = 2
        /\ audits[f].stats.kept_lines = 1
        /\ audits[f].stats.skipped_schema = 1

\* C9: whatever the content of a raw line that is not a well-formed depth
\* delta (unparseable JSON, JSON that is not a record or lacks a required
\* field, a malformed decimal string, an ill-typed field), processing it
\* with no I/O failure does not end the pass: the line is counted in
\* bad_json, skipped_schema or normalize_errors and not in kept_lines, adds
\* nothing to the normalized and price outputs, and leaves prev_u, the
\* TopBook and the gap state as they were.
C9_Step ==
    \A line \in BadLines :
        ReadLine(line, 0) =>
            /\ pc' = "lines" /\ err' = "none"
            /\ Cardinality({c \in Outcomes \ {"kept_lines"} : audit'[c] = audit[c] + 1}) = 1
            /\ audit'.kept_lines = audit.kept_lines
            /\ norm' = norm /\ px' = px
            /\ prev_u' = prev_u /\ book' = book
            /\ audit'.continuity_ok = audit.continuity_ok
            /\ audit'.gaps = audit.gaps
            /\ audit'.first_gap = audit.first_gap
C9_PerLineErrorsAbsorbed == [][C9_Step]_vars

\* C10: when process_raw_dir has raised in the pass over a raw file, the
\* normalized, price and audit outputs of that file do not all exist, so the
\* completeness check of the next call does not match.
C10_FailedFileIncomplete ==
    (pc = "failed" /\ todo # <<>>) => ~Complete(Head(todo))

\* What a pass over `lines` that starts from scratch and meets no failure
\* leaves: the records of its two outputs and its Audit.
RECURSIVE FromScratch(_, _)
FromScratch(s, lines) ==
    IF lines = <<>> \/ s.exc # "none" THEN s
    ELSE LET r == process_line([s EXCEPT !.fnorm = <<>>, !.fpx = <<>>], Head(lines))
         IN FromScratch([r EXCEPT !.fnorm = s.fnorm \o @, !.fpx = s.fpx \o @], Tail(lines))
Fresh(lines) == FromScratch(Pass(Audit, TopBook, None, 0), lines)

\* C11: a raw file whose three outputs exist is skipped with zero work: the
\* file loop moves on and none of the three output directories changes.  A
\* file that lacks an output is processed from scratch: its pass starts on
\* empty (created or truncated) normalized and price files with a fresh
\* Audit, TopBook and prev_u at line 0, and the outputs a pass completes are
\* those of a single pass over the raw lines, whatever earlier passes left.
C11_SkipStep ==
    (pc = "for" /\ todo # <<>> /\ Complete(Head(todo))) =>
        /\ norm' = norm /\ px' = px /\ audits' = audits
        /\ pc' = "for" /\ todo' = Tail(todo)
C11_RestartStep ==
    (pc = "for" /\ pc' = "lines") =>
        /\ ~Complete(Head(todo))
        /\ norm'[Head(todo)] = <<>> /\ px'[Head(todo)] = <<>>
        /\ audit' = Audit /\ book' = TopBook /\ prev_u' = None /\ pos' = 0
C11_Overwritten ==
    \A f \in DOMAIN audits :
        audits[f].complete =>
            LET r == Fresh(rawdir[f].lines)
            IN norm[f] = r.fnorm /\ px[f] = r.fpx /\ audits[f].stats = r.audit
C11_IdempotentResumability ==
    []C11_Overwritten /\ [][C11_SkipStep /\ C11_RestartStep]_vars

\* C11 witness: after a pass that failed, a later call of process_raw_dir
\* has completed the file, with normalized and price records, and returned.
C11_Witness ==
    /\ pc = "finished" /\ nfail > 0
    /\ \E f \in DOMAIN audits :
           audits[f].complete /\ norm[f] # <<>> /\ px[f] # <<>>

\* C12: when the pass over one raw file has failed with an I/O error, the run
\* does not end there: the files that follow the failed one in the listing
\* are still visited in the same run.  (todo holds the failed file and the
\* files the run has not visited; a run that raised visits nothing more.)
C12_LaterFilesProcessed ==
    (pc = "failed" /\ err = "OSError") => Len(todo) <= 1

\* The line a LineDone step processed, whether it was kept, and whether it
\* failed the continuity check U <= prev_u + 1 <= u against a defined prev_u.
DoneLine == rawdir'[Head(todo)].lines[pos + 1]
Kept == audit'.kept_lines = audit.kept_lines + 1
Gap == /\ Kept /\ prev_u # None
       /\ ~(DoneLine.U <= prev_u + 1 /\ prev_u + 1 <= DoneLine.u)

\* C13: every kept line that fails the continuity check sets continuity_ok
\* to false and adds one to gaps; it sets first_gap, to {prev_u, U, u, line}
\* with line its 1-based physical line number, only if no gap was recorded
\* before, and its normalized record is written all the same; a line that is
\* no gap changes none of continuity_ok, gaps and first_gap.
C13_Step ==
    LineDone =>
        IF Gap
        THEN /\ audit'.continuity_ok = FALSE
             /\ audit'.gaps = audit.gaps + 1
             /\ audit'.first_gap =
                    IF audit.gaps = 0
                    THEN [prev_u |-> prev_u, U |-> DoneLine.U, u |-> DoneLine.u,
                          line |-> pos + 1]
                    ELSE audit.first_gap
             /\ Len(norm'[Head(todo)]) = Len(norm[Head(todo)]) + 1
        ELSE /\ audit'.continuity_ok = audit.continuity_ok
             /\ audit'.gaps = audit.gaps
             /\ audit'.first_gap = audit.first_gap
C13_Inv ==
    pc = "lines" =>
        /\ audit.continuity_ok <=> audit.gaps = 0
        /\ audit.first_gap = NoGap <=> audit.gaps = 0
C13_GapRecord == []C13_Inv /\ [][C13_Step]_vars

\* C13 witness: a pass has met its second gap, on line 4; first_gap is still
\* the first one, on line 2.
C13_Witness ==
    /\ pc = "lines" /\ pos = 4 /\ audit.gaps = 2
    /\ audit.first_gap.line = 2

\* The lines of a raw file that the pass keeps: records with the nine fields
\* whose levels are decimal strings.
IsKept(line) ==
    /\ line.json = "object" /\ required \subseteq line.keys
    /\ \A i \in DOMAIN line.b : line.b[i][1] # Malformed /\ line.b[i][2] # Malformed
    /\ \A i \in DOMAIN line.a : line.a[i][1] # Malformed /\ line.a[i][2] # Malformed
KeptOf(lines) == SelectSeq(lines, IsKept)

\* C14: after each fully processed line, and in the outputs of a completed
\* pass, the normalized output holds one record per kept line, in input
\* order: kept_lines records, the i-th being the i-th kept line normalized.
\* A kept line adds exactly one record whether or not it is a gap and whether
\* or not a price record is emitted; a dropped line adds none.
C14_Records(f, n, kept) ==
    /\ Len(norm[f]) = kept
    /\ norm[f] = [i \in 1..kept |-> normalize_delta(KeptOf(SubSeq(rawdir[f].lines, 1, n))[i])]
C14_Inv ==
    /\ pc = "lines" => C14_Records(Head(todo), pos, audit.kept_lines)
    /\ \A f \in DOMAIN audits :
           audits[f].complete =>
               C14_Records(f, Len(rawdir[f].lines), audits[f].stats.kept_lines)
C14_Step ==
    LineDone =>
        Len(norm'[Head(todo)]) = Len(norm[Head(todo)]) + (IF Kept THEN 1 ELSE 0)
C14_OneRecordPerKeptLine == []C14_Inv /\ [][C14_Step]_vars

\* C14 witness: a completed pass over two kept lines, the first with no price
\* record (a side of the book is empty), the second a gap: two normalized
\* records, one price record.
C14_Witness ==
    \E f \in DOMAIN audits :
        /\ audits[f].complete
        /\ audits[f].stats.kept_lines = 2 /\ audits[f].stats.gaps = 1
        /\ Len(norm[f]) = 2 /\ Len(px[f]) = 1

\* The levels of one side ("b" or "a") that the pass has applied to the book,
\* in order: those of the normalized records written so far.
RECURSIVE LevelsSeen(_, _)
LevelsSeen(records, side) ==
    IF records = <<>> THEN <<>>
    ELSE records[1][side] \o LevelsSeen(Tail(records), side)

\* The quantity of the most recent level for price p, 0 if there is none.
RECURSIVE LastQty(_, _)
LastQty(levels, p) ==
    IF levels = <<>> THEN 0
    ELSE IF levels[Len(levels)][1] = p THEN levels[Len(levels)][2]
    ELSE LastQty(SubSeq(levels, 1, Len(levels) - 1), p)

\* A side of the book holds exactly the prices last seen with a non-zero
\* quantity, with that quantity.
C15_Side(held, levels) ==
    /\ \A p \in DOMAIN held : \E i \in DOMAIN levels : levels[i][1] = p
    /\ \A i \in DOMAIN levels :
           LET p == levels[i][1]
           IN /\ p \in DOMAIN held <=> LastQty(levels, p) # 0
              /\ p \in DOMAIN held => held[p] = LastQty(levels, p)

\* C15: after the deltas applied so far, each side of the TopBook holds a
\* price iff the most recent level seen for that price on that side had a
\* non-zero quantity, and then with that quantity; the levels of a delta
\* count in their order, and a delta with no level for a side leaves that
\* side as it was.
C15_Inv ==
    pc = "lines" =>
        /\ C15_Side(book.bids, LevelsSeen(norm[Head(todo)], "b"))
        /\ C15_Side(book.asks, LevelsSeen(norm[Head(todo)], "a"))
C15_Step ==
    (LineDone /\ Kept) =>
        /\ DoneLine.b = <<>> => book'.bids = book.bids
        /\ DoneLine.a = <<>> => book'.asks = book.asks
C15_TopBookInvariant == []C15_Inv /\ [][C15_Step]_vars

\* C15 witness: after three deltas the ask side holds a price and the bid
\* side is empty again, after a price was set on it and removed.
C15_Witness ==
    /\ pc = "lines" /\ pos = 3
    /\ DOMAIN book.bids = {} /\ DOMAIN book.asks # {}
    /\ \E i \in DOMAIN norm[Head(todo)] :
           \E j \in DOMAIN norm[Head(todo)][i].b : norm[Head(todo)][i].b[j][2] # 0

\* C16: for each kept line, once its delta is applied, exactly one price
\* record is emitted if both sides of the book are non-empty, with best_bid
\* the highest bid price, best_ask the lowest ask price and the quantities
\* stored for them, and none if a side is empty; the price output of the
\* pass in progress, and of a completed pass, never has more records than
\* its normalized output.
C16_Emitted(rec) ==
    /\ rec.best_bid \in DOMAIN book'.bids
    /\ \A p \in DOMAIN book'.bids : p <= rec.best_bid
    /\ rec.bid_sz = book'.bids[rec.best_bid]
    /\ rec.best_ask \in DOMAIN book'.asks
    /\ \A p \in DOMAIN book'.asks : rec.best_ask <= p
    /\ rec.ask_sz = book'.asks[rec.best_ask]
C16_Step ==
    LineDone =>
        LET f == Head(todo)
        IN IF Kept /\ DOMAIN book'.bids # {} /\ DOMAIN book'.asks # {}
           THEN /\ Len(px'[f]) = Len(px[f]) + 1
                /\ SubSeq(px'[f], 1, Len(px[f])) = px[f]
                /\ C16_Emitted(px'[f][Len(px'[f])])
           ELSE px'[f] = px[f]
C16_Inv ==
    /\ pc = "lines" => Len(px[Head(todo)]) <= Len(norm[Head(todo)])
    /\ \A f \in DOMAIN audits : audits[f].complete => Len(px[f]) <= Len(norm[f])
C16_PriceEmission == []C16_Inv /\ [][C16_Step]_vars

\* C16 witness: the third delta got a price record and an earlier one did
\* not; the book holds two bid prices and the record carries the higher.
C16_Witness ==
    /\ pc = "lines" /\ pos = 3
    /\ Cardinality(DOMAIN book.bids) = 2
    /\ LET out == px[Head(todo)]
       IN /\ Len(out) \in 1..2
          /\ \E p \in DOMAIN book.bids : p < out[Len(out)].best_bid

\* C17: with the writer and the pass interleaved on one raw directory, the
\* pass selects final names only, never a temp file, and every raw file it
\* has processed and marked complete holds all the lines of its bucket: the
\* lines it read are the lines written to that bucket, in arrival order.
C17_WriterReaderDecoupling ==
    /\ \A i \in DOMAIN todo : todo[i] \in Buckets
    /\ \A f \in DOMAIN audits :
           audits[f].complete =>
               [i \in DOMAIN rawdir[f].lines |-> rawdir[f].lines[i].U] = hist[f]

\* C18: continuity_ok(prev_u, U, u) returns true for every U and u when
\* prev_u is undefined, and otherwise exactly when U <= prev_u + 1 <= u, so
\* true on (5, 6, 10) and false on (5, 7, 10); the call changes nothing but
\* its result.
C18_Result ==
    cc.out # "none" =>
        /\ cc.prev_u = None => cc.out = "true"
        /\ cc.prev_u # None =>
               (cc.out = "true" <=> cc.U <= cc.prev_u + 1 /\ cc.prev_u + 1 <= cc.u)
        /\ (cc.prev_u = 5 /\ cc.U = 6 /\ cc.u = 10) => cc.out = "true"
        /\ (cc.prev_u = 5 /\ cc.U = 7 /\ cc.u = 10) => cc.out = "false"
C18_NoSideEffect ==
    cc' # cc =>
        /\ cc'.prev_u = cc.prev_u /\ cc'.U = cc.U /\ cc'.u = cc.u
        /\ UNCHANGED <<wvars, lvars, nvars>>
C18_ContinuityChecker == []C18_Result /\ [][C18_NoSideEffect]_vars

\* C18 witness: the call on (5, 6, 10) has returned true.
C18_Witness ==
    cc = [prev_u |-> 5, U |-> 6, u |-> 10, out |-> "true"]

\* C19: within a pass prev_u is undefined before the first kept line and
\* after a kept line that was a gap, and is otherwise the u of the most
\* recent kept line (a dropped line leaves it); so a kept line met with
\* prev_u undefined, the line that follows a gap included, is never counted
\* as a gap, whatever its U and u.
C19_Step ==
    /\ (pc = "for" /\ pc' = "lines") => prev_u' = None
    /\ LineDone =>
           /\ prev_u' = IF ~Kept THEN prev_u
                        ELSE IF Gap THEN None
                        ELSE DoneLine.u
           /\ prev_u = None =>
                  /\ audit'.gaps = audit.gaps
                  /\ audit'.continuity_ok = audit.continuity_ok
C19_Inv ==
    (pc = "lines" /\ audit.kept_lines = 0) => prev_u = None
C19_ContinuityBaseline == []C19_Inv /\ [][C19_Step]_vars

\* C19 witness: three kept lines, the second a gap, the third not counted as
\* one although its U and u do not continue the u of the gap line.
C19_Witness ==
    /\ pc = "lines" /\ pos = 3
    /\ audit.kept_lines = 3 /\ audit.gaps = 1 /\ audit.first_gap.line = 2
    /\ LET l == rawdir[Head(todo)].lines
       IN /\ ~(l[3].U <= l[2].u + 1 /\ l[2].u + 1 <= l[3].u)
          /\ prev_u = l[3].u

\* The content of the open bucket's temp file (nothing if it does not exist).
TmpContent ==
    IF writer.tmp_path \in DOMAIN disk.tmp THEN disk.tmp[writer.tmp_path] ELSE <<>>

\* C20: whenever a write() or close() call has returned normally, the buffer
\* holds fewer than BATCH_SIZE lines, all of them lines written to the
\* currently open bucket, and is empty when no bucket is open; the temp file
\* content followed by the buffer is the sequence of lines written to the
\* open bucket since it was opened, in arrival order.
C20_BufferInvariant ==
    (op \in {"write", "close"} /\ ret = "ok") =>
        /\ Len(writer.buffer) < BATCH_SIZE
        /\ writer.current_bucket = None => writer.buffer = <<>>
        /\ writer.current_bucket # None =>
               /\ \A i \in DOMAIN writer.buffer :
                      \E j \in DOMAIN hist[writer.current_bucket] :
                          hist[writer.current_bucket][j] = writer.buffer[i]
               /\ TmpContent \o writer.buffer = episode

====
